---- MODULE Spec2Model ----
(***************************************************************************)
(* Model of src/aggregator.py: the feed aggregation script.  The script is *)
(* a straight-line program: load the configuration, expand it into         *)
(* feed_sources, fetch and normalise every source in order, deduplicate    *)
(* on hash_key, sort and write the CSV snapshot.                           *)
(*                                                                         *)
(* Python strings are TLA+ strings; the string methods the script uses     *)
(* (strip, lstrip, replace, slicing, "in", comparison) are operators that  *)
(* compute what the method computes.  The network and the clock are the    *)
(* environment: net maps a URL to what a GET of it yields.                 *)
(***************************************************************************)
EXTENDS Integers, Sequences, FiniteSets, TLC

VARIABLES
    cfgExists,     \* os.path.exists(CFG_PATH)
    cfg,           \* the mapping yaml.safe_load returns
    net,           \* environment: URL -> outcome of requests.get
    now,           \* environment: datetime.now(timezone.utc), in whole hours
    pc,            \* position of the script
    NITTER_BASE, NITTER_MIRRORS, categories,
    feed_sources,  \* list of dicts source/category/url(/handle)
    i,             \* index of the for loop over feed_sources (1-based)
    xml,           \* result of fetch_feed for feed_sources[i]
    rows, seen,
    logs,          \* lines printed by log(), without the "[aggregator] " tag
    gets,          \* URLs handed to requests.get, in order
    dataDir,       \* whether directory data/ exists
    outFile,       \* <<>> while no CSV is written, <<its rows>> afterwards
    exitCode       \* <<>> while running, <<status>> once the process has ended

vars == <<cfgExists, cfg, net, now, pc, NITTER_BASE, NITTER_MIRRORS, categories,
          feed_sources, i, xml, rows, seen, logs, gets, dataDir, outFile, exitCode>>

None == "<None>"

---------------------------------------------------------------------------
(* Python str methods *)

Char(s, k) == SubSeq(s, k, k)

\* str.strip() with no argument removes these from both ends
Whitespace == {" ", "\n", "\r", "\t"}

RECURSIVE lstrip_ws(_)
lstrip_ws(s) ==
    IF s # "" /\ Char(s, 1) \in Whitespace THEN lstrip_ws(SubSeq(s, 2, Len(s))) ELSE s

RECURSIVE rstrip_ws(_)
rstrip_ws(s) ==
    IF s # "" /\ Char(s, Len(s)) \in Whitespace THEN rstrip_ws(SubSeq(s, 1, Len(s) - 1)) ELSE s

strip(s) == rstrip_ws(lstrip_ws(s))

\* str.lstrip(chars) for a one-character argument
RECURSIVE lstrip(_, _)
lstrip(s, c) ==
    IF s # "" /\ Char(s, 1) = c THEN lstrip(SubSeq(s, 2, Len(s)), c) ELSE s

\* str.replace(old, new) for one-character old and new
RECURSIVE replace(_, _, _)
replace(s, old, new) ==
    IF Len(s) = 0 THEN ""
    ELSE IF Len(s) = 1 THEN (IF s = old THEN new ELSE s)
    ELSE LET h == Len(s) \div 2
         IN  replace(SubSeq(s, 1, h), old, new) \o replace(SubSeq(s, h + 1, Len(s)), old, new)

\* sub in s
Contains(s, sub) ==
    \E k \in 0..(Len(s) - Len(sub)) : SubSeq(s, k + 1, k + Len(sub)) = sub

\* dict.get(key, default)
Get(d, key, default) == IF key \in DOMAIN d THEN d[key] ELSE default

\* item in lst
InList(item, lst) == \E k \in 1..Len(lst) : lst[k] = item

---------------------------------------------------------------------------
(* Loading the configuration and expanding it into feed_sources *)

DefaultNitterBase == "https://nitter.net"

\* lines 30-36: one dict per declaration of substack + fintech_news
NamedSource(item, cats) ==
    [source   |-> item.name,
     category |-> IF InList(item, Get(cats, "substack", <<>>)) THEN "substack" ELSE "fintech_news",
     url      |-> item.url,
     handle   |-> None]

\* lines 39-47: one dict per twitter account
TwitterSource(acct, base) ==
    LET handle == lstrip(acct.handle, "@")
    IN  [source   |-> "Twitter:" \o handle,
         category |-> "twitter",
         url      |-> base \o "/" \o handle \o "/rss",
         handle   |-> handle]

ExpandSources(cats, base) ==
    LET named == Get(cats, "substack", <<>>) \o Get(cats, "fintech_news", <<>>)
        tw    == Get(cats, "twitter_accounts", <<>>)
    IN  [k \in 1..Len(named) |-> NamedSource(named[k], cats)]
        \o [k \in 1..Len(tw) |-> TwitterSource(tw[k], base)]

---------------------------------------------------------------------------
(* Timestamps.  A datetime is [date, hour, off]: the wall-clock date and   *)
(* hour it shows and its UTC offset in hours (minutes and seconds are 0).  *)

Digits == "0123456789"
DigitVal(c) == CHOOSE d \in 0..9 : Char(Digits, d + 1) = c
IsDigit(c)  == \E d \in 0..9 : Char(Digits, d + 1) = c
TwoDigits(n) == Char(Digits, (n \div 10) + 1) \o Char(Digits, (n % 10) + 1)
TwoDigitVal(s) == 10 * DigitVal(Char(s, 1)) + DigitVal(Char(s, 2))

OffsetStr(off) == (IF off < 0 THEN "-" ELSE "+") \o TwoDigits(IF off < 0 THEN 0 - off ELSE off) \o ":00"

\* datetime.isoformat() of an aware datetime with zero microseconds
isoformat(dt) == dt.date \o "T" \o TwoDigits(dt.hour) \o ":00:00" \o OffsetStr(dt.off)

\* The feed date shapes considered: "YYYY-MM-DD HH:00:00+HH:00" or with "T"
\* for the blank; dtparse.parse raises on the other values used here.
Parsable(s) ==
    /\ Len(s) = 25
    /\ Char(s, 11) \in {" ", "T"}
    /\ IsDigit(Char(s, 12)) /\ IsDigit(Char(s, 13))
    /\ Char(s, 20) \in {"+", "-"}
    /\ IsDigit(Char(s, 21)) /\ IsDigit(Char(s, 22))

dtparse(s) ==
    [date |-> SubSeq(s, 1, 10),
     hour |-> TwoDigitVal(SubSeq(s, 12, 13)),
     off  |-> (IF Char(s, 20) = "-" THEN 0 - 1 ELSE 1) * TwoDigitVal(SubSeq(s, 21, 22))]

\* datetime.now(timezone.utc) when the clock shows hour h
Today == "2024-01-01"
utcnow(h) == [date |-> Today, hour |-> h, off |-> 0]

---------------------------------------------------------------------------
(* hash_key and parse_entry *)

\* a or b, for str-or-None values
Or(a, b) == IF a # None /\ a # "" THEN a ELSE b

\* lines 55-59: the digest of the concatenation of the parts.  md5 is taken
\* to be collision-free, so the digest is identified with the bytes fed to it.
RECURSIVE hash_key(_)
hash_key(parts) ==
    IF parts = <<>> THEN ""
    ELSE Or(Head(parts), "") \o hash_key(Tail(parts))

\* lines 67-78: the first of published/updated/created that parses
RECURSIVE FirstParsed(_, _, _)
FirstParsed(entry, keys, h) ==
    IF keys = <<>> THEN utcnow(h)
    ELSE LET val == Or(Get(entry, Head(keys), None), Get(entry, Head(keys) \o "_parsed", None))
         IN  IF val # None /\ val # "" /\ Parsable(val) THEN dtparse(val)
             ELSE FirstParsed(entry, Tail(keys), h)

MaxSummary == 2000

\* CleanSummary with the length test off by one (>= for >)
CleanSummaryOffByOne(summary) ==
    IF summary = "" THEN summary
    ELSE LET s == strip(replace(replace(summary, "\n", " "), "\r", " "))
         IN  IF Len(s) >= 2000 THEN SubSeq(s, 1, 2000) \o "..." ELSE s

\* lines 81-85
CleanSummary(summary) ==
    IF summary = "" THEN summary
    ELSE LET s == strip(replace(replace(summary, "\n", " "), "\r", " "))
         IN  IF Len(s) > MaxSummary THEN SubSeq(s, 1, MaxSummary) \o "..." ELSE s

\* lines 61-87
parse_entry(entry, h) ==
    [title     |-> strip(Get(entry, "title", "")),
     link      |-> strip(Get(entry, "link", "")),
     summary   |-> CleanSummary(strip(Or(Or(Get(entry, "summary", None),
                                            Get(entry, "description", None)), ""))),
     published |-> FirstParsed(entry, <<"published", "updated", "created">>, h)]

---------------------------------------------------------------------------
(* Fetching *)

\* What a GET of a URL outside the modelled network does: it raises.
Unreachable == [exc |-> TRUE, status_code |-> 0, text |-> [blank |-> TRUE, bozo |-> FALSE, entries |-> <<>>]]

\* lines 89-93: requests.get(url, ...); exc = the call raises
try_fetch(url) == IF url \in DOMAIN net THEN net[url] ELSE Unreachable

\* r.status_code == 200 and r.text.strip()
Accepted(r) == r.status_code = 200 /\ ~r.text.blank

\* MirrorLoop without the return at the first accepted mirror: the remaining
\* mirrors are still requested
RECURSIVE MirrorLoopNoReturn(_, _)
MirrorLoopNoReturn(bases, handle) ==
    IF bases = <<>> THEN [xml |-> <<>>, logs |-> <<>>, gets |-> <<>>]
    ELSE LET base     == Head(bases)
             test_url == base \o "/" \o handle \o "/rss"
             r        == try_fetch(test_url)
             rest     == MirrorLoopNoReturn(Tail(bases), handle)
         IN  IF r.exc
             THEN [xml  |-> rest.xml,
                   logs |-> <<"Nitter mirror failed: " \o base>> \o rest.logs,
                   gets |-> <<test_url>> \o rest.gets]
             ELSE IF Accepted(r)
             THEN [xml |-> <<r.text>>, logs |-> rest.logs, gets |-> <<test_url>> \o rest.gets]
             ELSE [xml |-> rest.xml, logs |-> rest.logs, gets |-> <<test_url>> \o rest.gets]

\* lines 98-106: the loop over NITTER_MIRRORS.  The result is what fetch_feed
\* returns (<<>> for None, <<text>> otherwise), the lines it logs and the
\* URLs it requests.
RECURSIVE MirrorLoop(_, _)
MirrorLoop(bases, handle) ==
    IF bases = <<>> THEN [xml |-> <<>>, logs |-> <<>>, gets |-> <<>>]
    ELSE LET base     == Head(bases)
             test_url == base \o "/" \o handle \o "/rss"
             r        == try_fetch(test_url)
             rest     == MirrorLoop(Tail(bases), handle)
         IN  IF r.exc
             THEN [xml  |-> rest.xml,
                   logs |-> <<"Nitter mirror failed: " \o base>> \o rest.logs,
                   gets |-> <<test_url>> \o rest.gets]
             ELSE IF Accepted(r)
             THEN [xml |-> <<r.text>>, logs |-> <<>>, gets |-> <<test_url>>]
             ELSE [xml |-> rest.xml, logs |-> rest.logs, gets |-> <<test_url>> \o rest.gets]

\* lines 108-114
DirectFetch(url) ==
    LET r == try_fetch(url)
    IN  IF r.exc THEN [xml |-> <<>>, logs |-> <<"Fetch failed: " \o url>>, gets |-> <<url>>]
        ELSE IF Accepted(r) THEN [xml |-> <<r.text>>, logs |-> <<>>, gets |-> <<url>>]
        ELSE [xml |-> <<>>, logs |-> <<>>, gets |-> <<url>>]

\* line 97: handle and "nitter" in url
UsesMirrors(url, handle) == handle # None /\ handle # "" /\ Contains(url, "nitter")

\* lines 95-114
fetch_feed(url, handle, mirrors) ==
    IF UsesMirrors(url, handle) THEN MirrorLoop(mirrors, handle) ELSE DirectFetch(url)

---------------------------------------------------------------------------
(* The loop body over the entries of one feed, lines 126-144 *)

MaxPerSource == 50

Take(seq, n) == SubSeq(seq, 1, IF Len(seq) < n THEN Len(seq) ELSE n)

Row(src, e, h) ==
    [source       |-> src.source,
     category     |-> src.category,
     title        |-> e.title,
     link         |-> e.link,
     summary      |-> e.summary,
     published    |-> isoformat(e.published),
     collected_at |-> isoformat(utcnow(h))]

\* Keeps with "and" for "or"
KeepsNeedsBoth(e) == e.title # "" /\ e.link # ""

\* title or link
Keeps(e) == e.title # "" \/ e.link # ""

\* ProcessEntries without the membership test on seen
RECURSIVE ProcessEntriesNoSeenTest(_, _, _, _, _)
ProcessEntriesNoSeenTest(entries, src, rs, sn, h) ==
    IF entries = <<>> THEN [rows |-> rs, seen |-> sn]
    ELSE LET e   == parse_entry(Head(entries), h)
             key == hash_key(<<src.source, e.title, e.link>>)
         IN  IF ~(e.title # "" \/ e.link # "")
             THEN ProcessEntriesNoSeenTest(Tail(entries), src, rs, sn, h)
             ELSE ProcessEntriesNoSeenTest(Tail(entries), src,
                      Append(rs, [source       |-> src.source,
                                  category     |-> src.category,
                                  title        |-> e.title,
                                  link         |-> e.link,
                                  summary      |-> e.summary,
                                  published    |-> isoformat(e.published),
                                  collected_at |-> isoformat(utcnow(h))]),
                      sn \cup {key}, h)

RECURSIVE ProcessEntries(_, _, _, _, _)
ProcessEntries(entries, src, rs, sn, h) ==
    IF entries = <<>> THEN [rows |-> rs, seen |-> sn]
    ELSE LET e   == parse_entry(Head(entries), h)
             key == hash_key(<<src.source, e.title, e.link>>)
         IN  IF ~Keeps(e) \/ key \in sn
             THEN ProcessEntries(Tail(entries), src, rs, sn, h)
             ELSE ProcessEntries(Tail(entries), src, Append(rs, Row(src, e, h)), sn \cup {key}, h)

---------------------------------------------------------------------------
(* df.sort_values(by=["published"], ascending=False): the column holds     *)
(* Python str objects, compared code point by code point.  The default     *)
(* kind is quicksort, for which pandas promises no stability; numpy sorts   *)
(* arrays of up to 16 elements by insertion, which keeps equal keys in      *)
(* their order, and may reorder equal keys in longer ones.                  *)

\* the characters of an isoformat string, in code point order
CodePointOrder == "+-.0123456789:T"
Ord(c) == CHOOSE k \in 1..Len(CodePointOrder) : Char(CodePointOrder, k) = c

RECURSIVE StrLess(_, _)
StrLess(a, b) ==
    IF b = "" THEN FALSE
    ELSE IF a = "" THEN TRUE
    ELSE IF Char(a, 1) = Char(b, 1) THEN StrLess(SubSeq(a, 2, Len(a)), SubSeq(b, 2, Len(b)))
    ELSE Ord(Char(a, 1)) < Ord(Char(b, 1))

Remove(seq, k) == SubSeq(seq, 1, k - 1) \o SubSeq(seq, k + 1, Len(seq))

\* the orders in which rs can come out, largest key first
RECURSIVE Descending(_, _)
Descending(rs, stable) ==
    IF rs = <<>> THEN {<<>>}
    ELSE LET top   == {k \in 1..Len(rs) :
                          \A j \in 1..Len(rs) : ~StrLess(rs[k].published, rs[j].published)}
             first == {k \in top : \A j \in top : k <= j}
         IN  UNION {{<<rs[k]>> \o t : t \in Descending(Remove(rs, k), stable)} :
                    k \in IF stable THEN first ELSE top}

SortValues(rs) == Descending(rs, Len(rs) <= 16)

---------------------------------------------------------------------------
(* The script, top to bottom *)

\* lines 14-17, config present: lines 19-25
LoadConfig ==
    /\ pc = "load" /\ cfgExists
    /\ NITTER_BASE' = Get(cfg, "nitter_base", DefaultNitterBase)
    /\ NITTER_MIRRORS' = Get(cfg, "nitter_mirrors", <<NITTER_BASE'>>)
    /\ categories' = Get(cfg, "categories", <<>>)
    /\ pc' = "expand"
    /\ UNCHANGED <<cfgExists, cfg, net, now, feed_sources, i, xml, rows, seen, logs, gets,
                   dataDir, outFile, exitCode>>

\* ConfigMissing ending the process with status 0
ConfigMissingExitsZero ==
    /\ pc = "load" /\ ~cfgExists
    /\ logs' = Append(logs, "ERROR: config/feeds.yaml not found.")
    /\ exitCode' = <<0>>
    /\ pc' = "exit"
    /\ UNCHANGED <<cfgExists, cfg, net, now, NITTER_BASE, NITTER_MIRRORS, categories,
                   feed_sources, i, xml, rows, seen, gets, dataDir, outFile>>

\* lines 15-17, config absent
ConfigMissing ==
    /\ pc = "load" /\ ~cfgExists
    /\ logs' = Append(logs, "ERROR: config/feeds.yaml not found.")
    /\ exitCode' = <<1>>
    /\ pc' = "exit"
    /\ UNCHANGED <<cfgExists, cfg, net, now, NITTER_BASE, NITTER_MIRRORS, categories,
                   feed_sources, i, xml, rows, seen, gets, dataDir, outFile>>

\* lines 28-49
BuildSources ==
    /\ pc = "expand"
    /\ feed_sources' = ExpandSources(categories, NITTER_BASE)
    /\ logs' = Append(logs, "Loaded " \o ToString(Len(feed_sources')) \o " feeds.")
    /\ i' = 1
    /\ pc' = "loop"
    /\ UNCHANGED <<cfgExists, cfg, net, now, NITTER_BASE, NITTER_MIRRORS, categories,
                   xml, rows, seen, gets, dataDir, outFile, exitCode>>

\* line 117
FetchSource ==
    /\ pc = "loop" /\ i <= Len(feed_sources)
    /\ LET src == feed_sources[i]
           f   == fetch_feed(src.url, src.handle, NITTER_MIRRORS)
       IN  /\ xml' = f.xml
           /\ logs' = logs \o f.logs
           /\ gets' = gets \o f.gets
    /\ pc' = "fetched"
    /\ UNCHANGED <<cfgExists, cfg, net, now, NITTER_BASE, NITTER_MIRRORS, categories,
                   feed_sources, i, rows, seen, dataDir, outFile, exitCode>>

\* SkipSource ending the process instead of continuing the loop
SkipSourceAborts ==
    /\ pc = "fetched" /\ xml = <<>>
    /\ logs' = Append(logs, "SKIP (unreachable): " \o feed_sources[i].source
                                \o " -> " \o feed_sources[i].url)
    /\ exitCode' = <<1>>
    /\ pc' = "exit"
    /\ UNCHANGED <<cfgExists, cfg, net, now, NITTER_BASE, NITTER_MIRRORS, categories,
                   feed_sources, i, xml, rows, seen, gets, dataDir, outFile>>

\* lines 118-120
SkipSource ==
    /\ pc = "fetched" /\ xml = <<>>
    /\ logs' = Append(logs, "SKIP (unreachable): " \o feed_sources[i].source
                                \o " -> " \o feed_sources[i].url)
    /\ i' = i + 1
    /\ pc' = "loop"
    /\ UNCHANGED <<cfgExists, cfg, net, now, NITTER_BASE, NITTER_MIRRORS, categories,
                   feed_sources, xml, rows, seen, gets, dataDir, outFile, exitCode>>

\* lines 122-144; the clock moves on between sources
ProcessFeed ==
    /\ pc = "fetched" /\ xml # <<>>
    /\ LET src  == feed_sources[i]
           feed == xml[1]
           res  == ProcessEntries(Take(feed.entries, MaxPerSource), src, rows, seen, now)
       IN  /\ logs' = IF feed.bozo
                      THEN Append(logs, "Warning: parsing issue for " \o src.source)
                      ELSE logs
           /\ rows' = res.rows
           /\ seen' = res.seen
    /\ now' = now + 1
    /\ i' = i + 1
    /\ pc' = "loop"
    /\ UNCHANGED <<cfgExists, cfg, net, NITTER_BASE, NITTER_MIRRORS, categories,
                   feed_sources, xml, gets, dataDir, outFile, exitCode>>

\* lines 146-157, and the normal end of the process
WriteSnapshot ==
    /\ pc = "loop" /\ i > Len(feed_sources)
    /\ dataDir' = TRUE
    /\ \E sorted \in SortValues(rows) : outFile' = <<sorted>>
    /\ logs' = logs \o <<"Collected " \o ToString(Len(rows)) \o " items.",
                         "Wrote data/news_raw.csv with " \o ToString(Len(rows)) \o " rows.">>
    /\ exitCode' = <<0>>
    /\ pc' = "done"
    /\ UNCHANGED <<cfgExists, cfg, net, now, NITTER_BASE, NITTER_MIRRORS, categories,
                   feed_sources, i, xml, rows, seen, gets>>

Next ==
    \/ LoadConfig
    \/ ConfigMissing
    \/ BuildSources
    \/ FetchSource
    \/ SkipSource
    \/ ProcessFeed
    \/ WriteSnapshot

---------------------------------------------------------------------------
(* Initial states: the state before line 14 runs, for a configuration file *)
(* and a network drawn from bounded sets.                                  *)

ClockStart == 15

Start(exists, c, n) ==
    /\ cfgExists = exists
    /\ cfg = c
    /\ net = n
    /\ now = ClockStart
    /\ pc = "load"
    /\ NITTER_BASE = None
    /\ NITTER_MIRRORS = <<>>
    /\ categories = <<>>
    /\ feed_sources = <<>>
    /\ i = 0
    /\ xml = <<>>
    /\ rows = <<>>
    /\ seen = {}
    /\ logs = <<>>
    /\ gets = <<>>
    /\ dataDir = FALSE
    /\ outFile = <<>>
    /\ exitCode = <<>>

\* an optional key of a YAML mapping
Opt(key, present, val) == IF present THEN key :> val ELSE <<>>

D1 == [name |-> "a",  url |-> "http://s1/feed"]
D2 == [name |-> "ab", url |-> "http://s2/feed"]
D3 == [name |-> "c",  url |-> "http://s3/feed"]

OtherBase == "https://xcancel.com"

MirrorBases == <<"https://nitter.a", "https://nitter.b", "https://nitter.c",
                 "https://nitter.d", "https://nitter.e">>

\* every URL a run over configuration c could request
UrlsOf(c) ==
    LET base    == Get(c, "nitter_base", DefaultNitterBase)
        mirrors == Get(c, "nitter_mirrors", <<base>>)
        srcs    == ExpandSources(Get(c, "categories", <<>>), base)
    IN  {srcs[k].url : k \in 1..Len(srcs)}
        \cup {mirrors[m] \o "/" \o srcs[k].handle \o "/rss" :
                 m \in 1..Len(mirrors), k \in {j \in 1..Len(srcs) : srcs[j].handle # None}}

Feed(entries, bozo) == [blank |-> FALSE, bozo |-> bozo, entries |-> entries]
Http(status, text)  == [exc |-> FALSE, status_code |-> status, text |-> text]
BlankText == [blank |-> TRUE, bozo |-> FALSE, entries |-> <<>>]

\* the one entry the feed at url carries in the fetch scenarios
EntryAt(url) == [title |-> "t", link |-> url \o "/1", summary |-> "s",
                 published |-> "2024-01-01 10:00:00+00:00"]

\* what a GET of url may yield: an exception, a 404, an empty 200, a feed
Outcome(url, kind) ==
    CASE kind = "exc"   -> Unreachable
      [] kind = "404"   -> Http(404, Feed(<<EntryAt(url)>>, FALSE))
      [] kind = "blank" -> Http(200, BlankText)
      [] kind = "junk"  -> Http(200, Feed(<<>>, TRUE))
      [] kind = "ok"    -> Http(200, Feed(<<EntryAt(url)>>, FALSE))

OutcomeKinds == {"exc", "404", "blank", "junk", "ok"}

MaxMirrors == 3

FetchConfigs ==
    {   Opt("nitter_base", hasBase, OtherBase)
     @@ Opt("nitter_mirrors", k > 0, SubSeq(MirrorBases, 1, k))
     @@ ("categories" :> [substack |-> <<D1>>, twitter_accounts |-> <<[handle |-> h]>>]) :
        hasBase \in BOOLEAN, k \in 0..MaxMirrors, h \in {"@h"}}

Init ==
    \E exists \in BOOLEAN, c \in FetchConfigs :
        \E kind \in [UrlsOf(c) -> OutcomeKinds] :
            Start(exists, c, [u \in UrlsOf(c) |-> Outcome(u, kind[u])])

Spec == Init /\ [][Next]_vars

---------------------------------------------------------------------------
(* Content scenarios: two named feeds whose entries vary in title, link,   *)
(* summary and dates.                                                      *)

At10 == "2024-01-01 10:00:00+00:00"
At09West == "2024-01-01T09:00:00-05:00"

ContentEntries ==
    { [title |-> " ", link |-> "\n", summary |-> "s", published |-> At10],
      [title |-> "c", link |-> "", summary |-> "", published |-> At10],
      [title |-> " c", summary |-> "x\ny", published |-> At09West],
      [link |-> "c ", published |-> "n/a", updated |-> At10],
      [title |-> "bc", link |-> "", description |-> "d", published |-> At09West],
      [title |-> "d", link |-> "http://d"] }

SeqsUpTo(S, n) == UNION {[1..k -> S] : k \in 0..n}

MaxEntriesFirst == 2
MaxEntriesSecond == 1

ContentConfigs ==
    { [categories |-> [substack |-> <<D1>>,
                       fintech_news |-> <<[name |-> nm, url |-> D2.url]>>]] :
      nm \in {"a", "ab"} }

InitContent ==
    \E exists \in BOOLEAN, c \in ContentConfigs :
        \E r1 \in {Unreachable} \cup {Http(200, Feed(d, FALSE)) : d \in SeqsUpTo(ContentEntries, MaxEntriesFirst)},
           r2 \in {Http(200, Feed(d, FALSE)) : d \in SeqsUpTo(ContentEntries, MaxEntriesSecond)} :
            Start(exists, c, (D1.url :> r1) @@ (D2.url :> r2))

SpecContent == InitContent /\ [][Next]_vars

---------------------------------------------------------------------------
(* Summary scenarios: one feed with one entry whose summary is long.       *)

\* the string of n copies of the character c
RECURSIVE Rep(_, _)
Rep(c, n) ==
    IF n = 0 THEN ""
    ELSE IF n = 1 THEN c
    ELSE LET half == Rep(c, n \div 2)
         IN  half \o half \o (IF n % 2 = 1 THEN c ELSE "")

SummaryUnder == 2
SummaryOver == 2

SummaryLengths == 0..2 \cup (MaxSummary - SummaryUnder)..(MaxSummary + SummaryOver)

\* bodies of n characters, plain or with a line break inside
SummaryBodies ==
    {Rep("x", n) : n \in SummaryLengths}
    \cup {Rep("x", n - (n \div 2) - 1) \o nl \o Rep("y", n \div 2) :
             n \in SummaryLengths \ {0}, nl \in {"\n", "\r"}}

RawSummaries ==
    {lead \o body \o trail : lead \in {"", " \n"}, trail \in {"", "\r "}, body \in SummaryBodies}

SummaryEntries ==
    {[title |-> "t", link |-> "", summary |-> raw] : raw \in RawSummaries}
    \cup {[title |-> "t", link |-> "", summary |-> "", description |-> raw] : raw \in RawSummaries}

InitSummary ==
    \E exists \in BOOLEAN, c \in {[categories |-> [substack |-> <<D1>>]]} :
        \E r1 \in {Unreachable} \cup {Http(200, Feed(<<e>>, FALSE)) : e \in SummaryEntries} :
            Start(exists, c, D1.url :> r1)

SpecSummary == InitSummary /\ [][Next]_vars

---------------------------------------------------------------------------
(* Expansion scenarios: configurations that vary in their category keys,   *)
(* run up to line 49.                                                      *)

\* an optional key given as <<>> (absent) or <<value>>
OptKey(key, opt) == IF opt = <<>> THEN <<>> ELSE key :> opt[1]

ExpandConfigs ==
    {   Opt("nitter_base", hasBase, OtherBase)
     @@ ("categories" :> (   OptKey("substack", ss)
                          @@ OptKey("fintech_news", fn)
                          @@ OptKey("ai_news", ai)
                          @@ OptKey("twitter_accounts", tw))) :
        hasBase \in BOOLEAN,
        ss \in {<<>>, << <<>> >>, << <<D1>> >>, << <<D1, D2>> >>},
        fn \in {<<>>, << <<D1>> >>, << <<D2>> >>, << <<D3, D2>> >>},
        ai \in {<<>>, << <<D3>> >>},
        tw \in {<<>>, << <<[handle |-> "@h"]>> >>,
                << <<[handle |-> "h"], [handle |-> "@@g"]>> >>} }

InitExpand == \E exists \in BOOLEAN, c \in ExpandConfigs : Start(exists, c, <<>>)

NextExpand ==
    \/ LoadConfig
    \/ ConfigMissing
    \/ BuildSources

SpecExpand == InitExpand /\ [][NextExpand]_vars

---------------------------------------------------------------------------
(* Vocabulary of the properties *)

Done == pc = "done"

\* the rows of the CSV once it is written
Out == outFile[1]

\* a GET of u yields status 200 and a non-empty body
Good(u) == u \in DOMAIN net /\ ~net[u].exc /\ net[u].status_code = 200 /\ ~net[u].text.blank

\* a GET of u raises
Raises(u) == u \notin DOMAIN net \/ net[u].exc

MirrorUrl(m, handle) == NITTER_MIRRORS[m] \o "/" \o handle \o "/rss"

\* the mirrors up to and including the first good one (all, when none is good)
TriedMirrors(handle) ==
    LET good == {m \in 1..Len(NITTER_MIRRORS) : Good(MirrorUrl(m, handle))}
    IN  IF good = {} THEN 1..Len(NITTER_MIRRORS)
        ELSE 1..(CHOOSE m \in good : \A n \in good : m <= n)

FailedMirrors(handle) == {m \in TriedMirrors(handle) : ~Good(MirrorUrl(m, handle))}

StartsWith(s, prefix) == Len(s) >= Len(prefix) /\ SubSeq(s, 1, Len(prefix)) = prefix

MirrorFailureLines == {k \in 1..Len(logs) : StartsWith(logs[k], "Nitter mirror failed: ")}

\* the body fetch_feed hands to the loop for source k, <<>> when it hands None
Fetched(k) == fetch_feed(feed_sources[k].url, feed_sources[k].handle, NITTER_MIRRORS).xml

EntriesOf(k) == IF Fetched(k) = <<>> THEN <<>> ELSE Take(Fetched(k)[1].entries, 50)

\* the clock when source k is processed
HourAt(k) == ClockStart + Cardinality({m \in 1..(k - 1) : Fetched(m) # <<>>})

\* the candidate records of the run: entry j of source k
Candidates ==
    UNION {{<<k, j>> : j \in 1..Len(EntriesOf(k))} : k \in 1..Len(feed_sources)}

Before(p, q) == p[1] < q[1] \/ (p[1] = q[1] /\ p[2] < q[2])

RawEntry(p) == EntriesOf(p[1])[p[2]]
Norm(p) == parse_entry(RawEntry(p), HourAt(p[1]))
Triple(p) == <<feed_sources[p[1]].source, Norm(p).title, Norm(p).link>>
RowTriple(r) == <<r.source, r.title, r.link>>

\* title and link are both empty once trimmed
BlankEntry(p) ==
    strip(Get(RawEntry(p), "title", "")) = "" /\ strip(Get(RawEntry(p), "link", "")) = ""

\* the first candidate of the run with the triple of p
FirstOfTriple(p) ==
    CHOOSE q \in Candidates :
        /\ Triple(q) = Triple(p)
        /\ \A q2 \in Candidates : Triple(q2) = Triple(p) => ~Before(q2, q)

---------------------------------------------------------------------------
(* Properties *)

\* C1: at the end of a run no two persisted rows have the same
\* (source, title, link) triple, and the row kept for a triple is the one of
\* the first candidate with it: a later candidate that differs only in
\* summary, published or collected_at is dropped.
C1_NoDuplicateFingerprint ==
    Done =>
        /\ \A a, b \in 1..Len(Out) : a # b => RowTriple(Out[a]) # RowTriple(Out[b])
        /\ \A a \in 1..Len(Out) :
              \E p \in Candidates :
                  /\ Triple(p) = RowTriple(Out[a])
                  /\ LET q == FirstOfTriple(p)
                     IN  /\ Out[a].summary = Norm(q).summary
                         /\ Out[a].published = isoformat(Norm(q).published)
                         /\ Out[a].collected_at = isoformat(utcnow(HourAt(q[1])))

\* C1 witness: a finished run in which two candidates had the same triple
\* and different summaries, and one row stands for both.
C1_Witness ==
    /\ Done
    /\ \E p, q \in Candidates :
          /\ Before(p, q)
          /\ Triple(p) = Triple(q)
          /\ Norm(p).summary # Norm(q).summary
          /\ Cardinality({a \in 1..Len(Out) : RowTriple(Out[a]) = Triple(p)}) = 1

\* C9: deduplication is exact on the triple: a candidate that is not
\* discarded is dropped only if a row with the identical source, title and
\* link is kept, so every such candidate's triple is the triple of a row.
C9_ExactTripleDedupe ==
    Done =>
        \A p \in Candidates :
            ~BlankEntry(p) => \E a \in 1..Len(Out) : RowTriple(Out[a]) = Triple(p)

\* C7: an entry whose title and link are both empty after trimming yields no
\* row and no fingerprint (the dedupe set grows only with the rows); an entry
\* with a non-empty trimmed title or link passes the rule and reaches the
\* dedupe set.
C7_DiscardRule ==
    /\ Cardinality(seen) = Len(rows)
    /\ \A a \in 1..Len(rows) : strip(rows[a].title) # "" \/ strip(rows[a].link) # ""
    /\ Done =>
          /\ \A a \in 1..Len(Out) : strip(Out[a].title) # "" \/ strip(Out[a].link) # ""
          /\ \A p \in Candidates :
                ~BlankEntry(p) => hash_key(Triple(p)) \in seen

\* C7 witness: a finished run that met an entry with blank title and link
\* but a summary, and an entry with a title only, which it kept.
C7_Witness ==
    /\ Done
    /\ \E p \in Candidates : BlankEntry(p) /\ Norm(p).summary # ""
    /\ \E p \in Candidates :
          /\ Norm(p).title # "" /\ Norm(p).link = ""
          /\ \E a \in 1..Len(Out) : RowTriple(Out[a]) = Triple(p)

\* the instant, in hours UTC, an isoformat string denotes
InstantOf(iso) == dtparse(iso).hour - dtparse(iso).off

PosInRows(r) == CHOOSE k \in 1..Len(rows) : rows[k] = r

\* C4: the persisted rows are in descending order of published time, no row
\* being earlier than the row after it, and rows with equal published keep the
\* order in which they were appended.
C4_SortedDescStable ==
    Done =>
        \A a, b \in 1..Len(Out) :
            a < b =>
                /\ InstantOf(Out[a].published) >= InstantOf(Out[b].published)
                /\ Out[a].published = Out[b].published => PosInRows(Out[a]) < PosInRows(Out[b])

\* the cleaned form of a raw summary: line breaks to spaces, then trimmed
Cleaned(raw) == strip(replace(replace(raw, "\n", " "), "\r", " "))

\* the raw summary of an entry: summary, else description, else empty
RawSummaryOf(entry) ==
    LET sm == Get(entry, "summary", "")
    IN  IF sm # "" THEN sm ELSE Get(entry, "description", "")

\* C8: a summary whose cleaned form has length L is persisted with length
\* min(L, 2000), plus the 3 characters "..." exactly when L > 2000: unchanged
\* when L <= 2000, its first 2000 characters and the marker otherwise, and
\* never longer than 2003.
C8_TruncationLaw ==
    Done =>
        \A a \in 1..Len(Out) :
            \E p \in Candidates :
                /\ Triple(p) = RowTriple(Out[a])
                /\ LET c   == Cleaned(RawSummaryOf(RawEntry(FirstOfTriple(p))))
                       L   == Len(c)
                       out == Out[a].summary
                   IN  /\ Len(out) = (IF L < 2000 THEN L ELSE 2000) + (IF L > 2000 THEN 3 ELSE 0)
                       /\ L <= 2000 => out = c
                       /\ L > 2000 => out = SubSeq(c, 1, 2000) \o "..."
                       /\ Len(out) <= 2003

\* C8 witness: a finished run that persisted a summary longer than 2000
\* characters after cleaning, cut to 2000 characters and the marker.
C8_Witness ==
    /\ Done
    /\ \E a \in 1..Len(Out) :
          /\ Len(Out[a].summary) = 2003
          /\ SubSeq(Out[a].summary, 2001, 2003) = "..."
          /\ \E p \in Candidates : Len(Cleaned(RawSummaryOf(RawEntry(p)))) > 2001

\* C6: after expansion, every declaration listed under a category key other
\* than twitter_accounts has exactly one source of its name and url whose
\* category is that key.
C6_CategoryIsListingKey ==
    pc = "loop" =>
        \A key \in DOMAIN categories \ {"twitter_accounts"} :
            \A d \in 1..Len(categories[key]) :
                Cardinality({k \in 1..Len(feed_sources) :
                                /\ feed_sources[k].source = categories[key][d].name
                                /\ feed_sources[k].url = categories[key][d].url
                                /\ feed_sources[k].category = key}) = 1

\* C5: with no configuration file the process ends with exit code 1 right
\* away: nothing is fetched, data/ is not created and no CSV is written.
C5_MissingConfigIsFatal ==
    ~cfgExists =>
        /\ gets = <<>> /\ ~dataDir /\ outFile = <<>> /\ rows = <<>>
        /\ exitCode \in {<<>>, <<1>>}
        /\ pc \in {"load", "exit"}
        /\ pc = "exit" => exitCode = <<1>> /\ ~ENABLED Next

\* C5 witness: the process has ended with exit code 1 for want of the file.
C5_Witness == ~cfgExists /\ pc = "exit" /\ exitCode = <<1>> /\ Len(logs) = 1

\* the fingerprints of the persisted rows
OutKeys == {hash_key(RowTriple(Out[a])) : a \in 1..Len(Out)}

\* C2: whatever sources fail, the run goes on to the next source and ends
\* normally: it is never stopped short of the end (it is at a step that has a
\* successor until it is done), it ends with exit code 0 and a
\* written snapshot after visiting every source, a source whose fetch yields
\* nothing has no row, and every undiscarded entry of a fetched source has
\* its fingerprint among the rows.
C2_SourceFailureNotFatal ==
    cfgExists =>
        /\ exitCode \in {<<>>, <<0>>}
        /\ ~Done => \/ pc \in {"load", "expand"}
                    \/ pc = "loop" /\ i \in 1..(Len(feed_sources) + 1)
                    \/ pc = "fetched" /\ i \in 1..Len(feed_sources)
        /\ Done =>
              /\ exitCode = <<0>> /\ outFile # <<>> /\ dataDir
              /\ i = Len(feed_sources) + 1
              /\ \A k \in 1..Len(feed_sources) :
                    Fetched(k) = <<>> =>
                        \A a \in 1..Len(Out) : Out[a].source # feed_sources[k].source
              /\ \A p \in Candidates : ~BlankEntry(p) => hash_key(Triple(p)) \in OutKeys

\* C2 witness: a finished run whose first source failed and whose second
\* source was fetched and has a row in the snapshot.
C2_Witness ==
    /\ Done /\ exitCode = <<0>>
    /\ Len(feed_sources) = 2
    /\ Fetched(1) = <<>> /\ Raises(feed_sources[1].url)
    /\ Fetched(2) # <<>>
    /\ \E a \in 1..Len(Out) : Out[a].source = feed_sources[2].source

\* the sources the loop has fetched so far
Visited == 1..(IF pc \in {"fetched", "done"} \/ i = 0 THEN i ELSE i - 1) \cap 1..Len(feed_sources)

\* the URLs of the mirrors tried for a handle, in order
TriedUrls(handle) == [m \in TriedMirrors(handle) |-> MirrorUrl(m, handle)]

RECURSIVE ConcatUpTo(_, _)
ConcatUpTo(f, n) == IF n = 0 THEN <<>> ELSE ConcatUpTo(f, n - 1) \o f[n]

\* the mirror-fallback sources: those with a non-empty handle and "nitter" in the url
MirrorSources ==
    {k \in 1..Len(feed_sources) :
        /\ feed_sources[k].handle \notin {None, ""}
        /\ Contains(feed_sources[k].url, "nitter")}

RowsOf(k) == {a \in 1..Len(Out) : Out[a].source = feed_sources[k].source}

C10_HandleAloneTriggersFallback ==
    Done =>
        gets = ConcatUpTo([k \in 1..Len(feed_sources) |->
                              IF feed_sources[k].handle # None
                              THEN TriedUrls(feed_sources[k].handle)
                              ELSE <<feed_sources[k].url>>], Len(feed_sources))

====
